---- MODULE Spec2Model ----
(***************************************************************************)
(* Progress reconciliation of the MCQ study app                            *)
(* (src/modules/MCQ/auth_and_progress.py, src/modules/MCQ/app.py).         *)
(*                                                                         *)
(* Each browser session keeps st.session_state (sb_session, progress,      *)
(* progress_loaded, progress_baseline); all sessions of a user share one   *)
(* row of the remote "progress" table.  A handler of the Streamlit script   *)
(* is one action up to and including its first remote call, and one action *)
(* per further remote call: the calls block, and steps of other sessions   *)
(* fall between them.  The network outcome of each remote read and write   *)
(* is an input of the action.                                              *)
(*                                                                         *)
(* Id lists are modelled as sets: save_progress converts every list with   *)
(* set(...) before using it and writes sorted(...) of a set, and           *)
(* _update_progress writes list(set(...)).  deck_id is always None         *)
(* (csv_loader.py:174), so the by_deck branch of _update_progress never    *)
(* runs and is left out.                                                   *)
(***************************************************************************)
EXTENDS Integers, FiniteSets, Sequences, TLC

VARIABLES
    remote,             \* the "progress" table: user id -> <<>> (no row) or <<row>>
    sb_session,         \* st.session_state.sb_session per session: <<>> or <<user id>>
    progress,           \* st.session_state.progress (Working): <<>> or <<snapshot>>
    progress_loaded,    \* st.session_state.progress_loaded (absent key = FALSE)
    progress_baseline,  \* st.session_state.progress_baseline: <<>> or <<snapshot>>
    inflight,           \* per session: <<>>, or <<locals>> of a save_progress call that
                        \* has made a remote read and not yet its upsert
    last,               \* what the most recent step did (observation only)
    hist,               \* bookkeeping of loads, submissions and saves (observation only)
    nops,               \* number of handler runs so far
    nfaults             \* number of failed remote calls so far

vars ==
    <<remote, sb_session, progress, progress_loaded, progress_baseline, inflight, last,
      hist, nops, nfaults>>

(***************************************************************************)
(* Bounds                                                                  *)
(***************************************************************************)
MaxOps == 4             \* handler runs after sign-in, per behaviour
MaxFaults == 2          \* failed remote reads and writes per behaviour
MaxCount == 2           \* largest counter of the enumerated merge inputs

Sessions == {"A", "B"}
Users == {"u1"}
Ids == {"1"}

None == <<>>
Some(x) == <<x>>

(***************************************************************************)
(* Snapshots                                                               *)
(***************************************************************************)
\* Variant: the shared default lists have been appended to in place.
DEFAULT_PROGRESS_polluted ==
    [attempts |-> 0, correct |-> 0, wrong_ids |-> {}, seen_ids |-> Ids]

DEFAULT_PROGRESS ==
    [attempts |-> 0, correct |-> 0, wrong_ids |-> {}, seen_ids |-> {}]

\* _normalize_progress: a missing row (None) becomes the default snapshot,
\* a row keeps its four progress fields.
normalize_progress(row) ==
    IF row = None
    THEN DEFAULT_PROGRESS
    ELSE [attempts  |-> row[1].attempts,
          correct   |-> row[1].correct,
          wrong_ids |-> row[1].wrong_ids,
          seen_ids  |-> row[1].seen_ids]

\* Variant: a session without sign-in is given the first user's identity.
current_user_id_fallback(s) ==
    IF sb_session[s] = None THEN Some(CHOOSE u \in Users : TRUE) ELSE sb_session[s]

\* current_user_id: <<>> when there is no session, else <<id>>.
current_user_id(s) == sb_session[s]

\* Variant: a failed read is answered from a stale copy of the row.
fetch_stale_on_failure(uid, fetchOk) == normalize_progress(remote[uid])

\* _fetch_server_progress wrapped in its caller's try/except: the normalized
\* row when the read succeeds, the default snapshot when it raises.
fetch_or_default(uid, fetchOk) ==
    IF fetchOk THEN normalize_progress(remote[uid]) ELSE DEFAULT_PROGRESS

max0(x) == IF x > 0 THEN x ELSE 0

(***************************************************************************)
(* The merge of save_progress (steps 2-4 of the function)                  *)
(***************************************************************************)
\* Variant: the attempts delta is used for correct as well.
d_correct_as_attempts(p, baseline) == max0(p.attempts - baseline.attempts)

\* d_attempts / d_correct: local increments since the baseline, clamped at 0.
d_attempts(p, baseline) == max0(p.attempts - baseline.attempts)
d_correct(p, baseline) == max0(p.correct - baseline.correct)

\* Variant: symmetric difference, ids listed on both sides are dropped.
merged_seen_symmetric(server, p) ==
    (server.seen_ids \union p.seen_ids) \ (server.seen_ids \intersect p.seen_ids)

\* merged_seen = sorted(server_seen | local_seen)
merged_seen(server, p) == server.seen_ids \union p.seen_ids

\* Variant: no id counts as corrected locally.
locally_corrected_ids_none(p) == {}

\* locally_corrected_ids = local_seen - local_wrong
locally_corrected_ids(p) == p.seen_ids \ p.wrong_ids

\* Variant: plain union, no local correction.
merged_wrong_union(server, p) == server.wrong_ids \union p.wrong_ids

\* Variant: an id the fetched row has seen and does not list as wrong is
\* not taken from the local wrong list.
merged_wrong_server_verdict(server, p) ==
    (server.wrong_ids \union (p.wrong_ids \ (server.seen_ids \ server.wrong_ids)))
        \ locally_corrected_ids(p)

\* merged_wrong = (server_wrong | local_wrong) - locally_corrected_ids
merged_wrong(server, p) ==
    (server.wrong_ids \union p.wrong_ids) \ locally_corrected_ids(p)

\* Variant: the deltas are added to the Baseline instead of the fetched row.
Merge_onto_baseline(server, baseline, p) ==
    [attempts  |-> baseline.attempts + d_attempts(p, baseline),
     correct   |-> baseline.correct + d_correct(p, baseline),
     wrong_ids |-> merged_wrong(server, p),
     seen_ids  |-> merged_seen(server, p)]

\* The four progress columns of the payload (user_id is the key of `remote`,
\* updated_at is not read back by the program).
Merge(server, baseline, p) ==
    [attempts  |-> server.attempts + d_attempts(p, baseline),
     correct   |-> server.correct + d_correct(p, baseline),
     wrong_ids |-> merged_wrong(server, p),
     seen_ids  |-> merged_seen(server, p)]

(***************************************************************************)
(* Local mutation of the Working copy                                      *)
(***************************************************************************)
\* Variant: a wrong answer is listed in wrong_ids without being marked seen.
update_progress_unseen(p, qid, correct) ==
    [attempts  |-> p.attempts + 1,
     correct   |-> p.correct + (IF correct THEN 1 ELSE 0),
     seen_ids  |-> IF correct THEN p.seen_ids \union {qid} ELSE p.seen_ids,
     wrong_ids |-> IF correct THEN p.wrong_ids \ {qid}
                              ELSE p.wrong_ids \union {qid}]

\* _update_progress before its final save_progress(p) call.
update_progress(p, qid, correct) ==
    [attempts  |-> p.attempts + 1,
     correct   |-> p.correct + (IF correct THEN 1 ELSE 0),
     seen_ids  |-> p.seen_ids \union {qid},
     wrong_ids |-> IF correct THEN p.wrong_ids \ {qid}
                              ELSE p.wrong_ids \union {qid}]

\* The dict the "Reset progress & settings" button stores as Working.
reset_progress == [attempts |-> 0, correct |-> 0, wrong_ids |-> {}, seen_ids |-> {}]

(***************************************************************************)
(* Observation records                                                     *)
(***************************************************************************)
SaveOps == {"submit", "reset", "save"}

Counters(snap) == <<snap.attempts, snap.correct>>

\* `last` of a handler that reached no remote read.  `calls` lists the remote
\* calls the handler made, `returned` is the value handed back to its caller
\* (<<>> for Python's None), `stale` tells that the row was rewritten by
\* another session between the remote read and the upsert of this save.
NoIO(op, s, result) ==
    [op |-> op, sess |-> s, result |-> result,
     fetchOk |-> FALSE, upsertOk |-> FALSE,
     server |-> DEFAULT_PROGRESS, p |-> DEFAULT_PROGRESS,
     d_attempts |-> 0, d_correct |-> 0, payload |-> DEFAULT_PROGRESS,
     calls |-> <<>>, returned |-> None, stale |-> FALSE]

Min(a, b) == IF a < b THEN a ELSE b

\* hist after a load of session s for user u that fetched `snap`.
\* hist.fresh[s] tells that s has loaded under its present sign-in.
HistLoad(s, u, fetchOk, snap) ==
    [hist EXCEPT
        !.fresh[s] = TRUE,
        !.snap0[s] = IF fetchOk THEN Some(<<u, snap.attempts, snap.correct>>) ELSE None,
        !.saves[s] = 0,
        !.pure[u] = @ /\ fetchOk,
        !.start[u] = IF hist.pure[u] /\ fetchOk THEN @ ELSE <<0, 0>>,
        !.subs[u] = IF hist.pure[u] /\ fetchOk THEN @ ELSE 0,
        !.cors[u] = IF hist.pure[u] /\ fetchOk THEN @ ELSE 0]

\* hist after session s left its load epoch (logout, reset, save before load).
HistLeave(h, s, u) ==
    [h EXCEPT
        !.snap0[s] = None,
        !.saves[s] = 0,
        !.pure[u] = FALSE,
        !.start[u] = <<0, 0>>,
        !.subs[u] = 0,
        !.cors[u] = 0]

\* "afterOk" / "afterFail": this handler is a save of session s with the
\* Working copy untouched that directly follows a save of s whose upsert
\* succeeded / failed; "no" otherwise.
Repeat(s, op) ==
    IF /\ op = "save" /\ last.sess = s /\ last.op \in SaveOps /\ last.result = "ok"
       /\ progress_loaded[s] /\ progress[s] = Some(last.p)
    THEN (IF last.upsertOk THEN "afterOk" ELSE "afterFail")
    ELSE "no"

\* "reloadSame" / "reloadDiff": this handler is a load of session s that
\* directly follows a completed load of s, the two remote reads having the
\* same / different outcomes; "no" otherwise.
Reload(s, fetchOk) ==
    IF last.op = "load" /\ last.sess = s /\ last.result = "ok"
    THEN (IF last.fetchOk = fetchOk THEN "reloadSame" ELSE "reloadDiff")
    ELSE "no"

\* hist after the remote part of a save of session s for user u.
HistSave(h, s, u, fetchOk, upsertOk) ==
    IF ~upsertOk THEN h
    ELSE IF fetchOk
         THEN [h EXCEPT !.saves[s] = IF h.snap0[s] = None THEN 0 ELSE Min(2, @ + 1)]
         ELSE [h EXCEPT
                  !.overwritten[u] = TRUE,
                  !.snap0 = [x \in Sessions |->
                               IF sb_session[x] = Some(u) THEN None ELSE h.snap0[x]],
                  !.saves = [x \in Sessions |->
                               IF sb_session[x] = Some(u) THEN 0 ELSE h.saves[x]]]

\* hist after a submission (counted only while the run is a pure sequence of
\* loads and fully successful submissions).
HistSubmit(s, u, correct, fetchOk, upsertOk) ==
    LET keep == hist.pure[u] /\ fetchOk /\ upsertOk
        h1 == [hist EXCEPT
                 !.pure[u] = keep,
                 !.start[u] = IF keep THEN @ ELSE <<0, 0>>,
                 !.subs[u] = IF keep THEN @ + 1 ELSE 0,
                 !.cors[u] = IF keep THEN @ + (IF correct THEN 1 ELSE 0) ELSE 0]
    IN HistSave(h1, s, u, fetchOk, upsertOk)

HistImpure(h, u) ==
    [h EXCEPT !.pure[u] = FALSE, !.start[u] = <<0, 0>>, !.subs[u] = 0, !.cors[u] = 0]

(***************************************************************************)
(* load_progress                                                           *)
(***************************************************************************)
\* Variant: the load answers with the default snapshot without reading.
load_progress_unread(uid, fetchOk) == DEFAULT_PROGRESS

\* The snapshot load_progress returns and stores as progress_baseline, for an
\* authenticated session (uid /= None).
load_progress(uid, fetchOk) == fetch_or_default(uid, fetchOk)

\* Variant: the loaded counters are added to the Baseline already held.
baseline_of_load_added(s, server_p) ==
    IF progress_baseline[s] = None THEN Some(server_p)
    ELSE Some([server_p EXCEPT
                 !.attempts = @ + progress_baseline[s][1].attempts,
                 !.correct = @ + progress_baseline[s][1].correct])

\* Variant: the load hands back the snapshot without recording a Baseline.
baseline_of_load_skipped(s, server_p) == progress_baseline[s]

\* st.session_state.progress_baseline = server_p.copy() of load_progress: the
\* Baseline of session s after a load that fetched server_p.
baseline_of_load(s, server_p) == Some(server_p)

\* Variant: a failed remote call propagates to the caller.
guarded_call_unguarded(ok) == IF ok THEN "ok" ELSE "raised"

\* A remote call inside try/except: the handler goes on whether the call
\* succeeded or raised.
guarded_call(ok) == "ok"

\* The outcome of a handler that made the given guarded remote calls.
Outcome(results) ==
    IF \A i \in DOMAIN results : results[i] = "ok" THEN "ok" ELSE "raised"

\* Variant: the advanced baseline starts with an empty wrong list.
baseline_after_wrong_cleared(stored, merged, upsertOk) ==
    IF upsertOk THEN Some([merged EXCEPT !.wrong_ids = {}]) ELSE stored

\* Variant: the baseline is advanced before the upsert is known to succeed.
baseline_after_always(stored, merged, upsertOk) == Some(merged)

\* Step 5 of save_progress: the baseline is advanced to the merged view only
\* when the upsert succeeded; `stored` is the baseline held before the upsert.
baseline_after(stored, merged, upsertOk) ==
    IF upsertOk THEN Some(merged) ELSE stored

\* Variant: the write is not keyed by user_id and lands on every row.
upsert_every_row(u, payload, upsertOk) ==
    IF upsertOk THEN [x \in DOMAIN remote |-> Some(payload)] ELSE remote

\* sb.table("progress").upsert(payload).execute() with payload.user_id = u:
\* the table after the call (unchanged when the call raised).
upsert(u, payload, upsertOk) ==
    IF upsertOk THEN [remote EXCEPT ![u] = Some(payload)] ELSE remote

(***************************************************************************)
(* save_progress(p), called in session s.  The call makes its remote calls *)
(* one after the other: the read of the implicit load when the session has *)
(* not loaded, the read of step 1, the upsert.  Each remote call is a step *)
(* of its own (steps of other sessions may fall between two of them);      *)
(* inflight[s] holds the locals of the call between its steps.             *)
(***************************************************************************)
\* No save_progress call of session s is under way.
Idle(s) == inflight[s] = None

\* The observation of the handler that ran last before a save of session s
\* began, kept when that handler was a save of s itself.
PrevOf(s) ==
    IF last.sess = s /\ last.op \in SaveOps THEN last ELSE NoIO("none", s, "ok")

\* save_progress(p) from its entry up to and including its first remote
\* call.  progressNow is st.session_state.progress at the time of the call,
\* `correct` the verdict of the answer a submission saves, `ok` the outcome
\* of the remote read (of the implicit load when the session has not
\* loaded, of step 1 otherwise).  The locals kept in inflight[s] also record,
\* for observation, the Baseline held when the call was made (base0) and the
\* snapshot its implicit load returned (loaded, <<>> when it made none).
save_progress(s, op, p, progressNow, correct, ok) ==
    LET uid == current_user_id(s)
        needLoad == ~progress_loaded[s]
        locals == [op |-> op, p |-> p, correct |-> correct,
                   base0 |-> progress_baseline[s],
                   prev |-> PrevOf(s), repeat |-> Repeat(s, op)]
    IN IF uid = None
       THEN \* not loaded: load_progress raises, "Skipping save" and return;
            \* loaded: RuntimeError("User not authenticated.")
            /\ last' = NoIO(op, s, IF needLoad THEN "skipped" ELSE "raised")
            /\ progress' = progressNow
            /\ UNCHANGED <<remote, progress_loaded, progress_baseline, inflight>>
       ELSE IF needLoad
       THEN \* st.session_state.progress = load_progress(); progress_loaded = True
            LET loaded == load_progress(uid[1], ok)
            IN /\ progress' = [progressNow EXCEPT ![s] = Some(loaded)]
               /\ progress_loaded' = [progress_loaded EXCEPT ![s] = TRUE]
               /\ progress_baseline' =
                     [progress_baseline EXCEPT ![s] = baseline_of_load(s, loaded)]
               /\ inflight' =
                     [inflight EXCEPT
                         ![s] = Some(locals @@ [stage |-> "loaded", calls |-> <<"fetch">>,
                                                server |-> loaded, fetchOk |-> ok,
                                                loaded |-> Some(loaded)])]
               /\ last' = [NoIO("saveload", s, Outcome(<<guarded_call(ok)>>)) EXCEPT
                              !.fetchOk = ok, !.server = loaded, !.p = p,
                              !.calls = <<"fetch">>]
               /\ UNCHANGED remote
       ELSE \* step 1: server = _fetch_server_progress(uid), the default on failure
            LET server == fetch_or_default(uid[1], ok)
            IN /\ progress' = progressNow
               /\ inflight' =
                     [inflight EXCEPT
                         ![s] = Some(locals @@ [stage |-> "fetched", calls |-> <<"fetch">>,
                                                server |-> server, fetchOk |-> ok,
                                                loaded |-> None])]
               /\ last' = [NoIO("fetch", s, Outcome(<<guarded_call(ok)>>)) EXCEPT
                              !.fetchOk = ok, !.server = server, !.p = p,
                              !.calls = <<"fetch">>]
               /\ UNCHANGED <<remote, progress_loaded, progress_baseline>>

\* hist when a save of session s for user u begins: a save that begins while
\* a save of another session of u is under way ends the pure run.
HistBegin(h, s, u) ==
    IF \E o \in Sessions \ {s} : inflight[o] /= None /\ sb_session[o] = Some(u)
    THEN HistImpure(h, u)
    ELSE h

(***************************************************************************)
(* Handlers                                                                *)
(***************************************************************************)
\* auth_ui, "Log in" button with a session returned.
LogIn(s, u) ==
    /\ sb_session[s] = None
    /\ Idle(s)
    /\ sb_session' = [sb_session EXCEPT ![s] = Some(u)]
    /\ last' = NoIO("login", s, "ok")
    /\ hist' = [hist EXCEPT !.repeat = "no", !.fresh[s] = FALSE]
    /\ UNCHANGED <<remote, progress, progress_loaded, progress_baseline, inflight>>

\* Variant: the log out drops the session and keeps the two progress keys.
LogOut_keeps_progress_keys(s) ==
    /\ sb_session[s] /= None
    /\ Idle(s)
    /\ sb_session' = [sb_session EXCEPT ![s] = None]
    /\ last' = NoIO("logout", s, "ok")
    /\ hist' = [HistLeave(hist, s, sb_session[s][1])
                  EXCEPT !.repeat = "no", !.fresh[s] = FALSE]
    /\ UNCHANGED <<remote, progress, progress_loaded, progress_baseline, inflight>>

\* auth_ui, "Log out" button: the session and the two progress keys are
\* dropped, st.session_state.progress stays.
LogOut(s) ==
    /\ sb_session[s] /= None
    /\ Idle(s)
    /\ sb_session' = [sb_session EXCEPT ![s] = None]
    /\ progress_loaded' = [progress_loaded EXCEPT ![s] = FALSE]
    /\ progress_baseline' = [progress_baseline EXCEPT ![s] = None]
    /\ last' = NoIO("logout", s, "ok")
    /\ hist' = [HistLeave(hist, s, sb_session[s][1])
                  EXCEPT !.repeat = "no", !.fresh[s] = FALSE]
    /\ UNCHANGED <<remote, progress, inflight>>

\* app.py "Load progress (guarded)": runs on a script run of an authenticated
\* session that has no progress or is not loaded.
PageLoad(s, fetchOk) ==
    /\ sb_session[s] /= None
    /\ Idle(s)
    /\ progress[s] = None \/ ~progress_loaded[s]
    /\ LET u == sb_session[s][1]
           server_p == load_progress(u, fetchOk)
       IN /\ progress_baseline' =
                 [progress_baseline EXCEPT ![s] = baseline_of_load(s, server_p)]
          /\ progress' = [progress EXCEPT ![s] = Some(server_p)]
          /\ progress_loaded' = [progress_loaded EXCEPT ![s] = TRUE]
          /\ last' = [NoIO("load", s, Outcome(<<guarded_call(fetchOk)>>)) EXCEPT
                         !.fetchOk = fetchOk, !.server = server_p,
                         !.calls = <<"fetch">>, !.returned = Some(server_p)]
          /\ hist' = [HistLoad(s, u, fetchOk, server_p) EXCEPT !.repeat = "no"]
    /\ UNCHANGED <<remote, sb_session, inflight>>

\* st.session_state.progress = load_progress(); progress_loaded = True run on
\* its own, outside the script's guard: the load operation of the UI boundary
\* called by a session that is not signed in (load_progress raises before
\* any read and the assignments do not happen) or that has loaded already.
Load(s, fetchOk) ==
    /\ sb_session[s] = None \/ (progress[s] /= None /\ progress_loaded[s])
    /\ Idle(s)
    /\ sb_session[s] = None => fetchOk
    /\ LET uid == current_user_id(s)
       IN IF uid = None
          THEN /\ last' = NoIO("load", s, "raised")
               /\ hist' = [hist EXCEPT !.repeat = "no"]
               /\ UNCHANGED <<progress, progress_loaded, progress_baseline>>
          ELSE LET u == uid[1]
                   server_p == load_progress(u, fetchOk)
               IN /\ progress_baseline' =
                         [progress_baseline EXCEPT ![s] = baseline_of_load(s, server_p)]
                  /\ progress' = [progress EXCEPT ![s] = Some(server_p)]
                  /\ progress_loaded' = [progress_loaded EXCEPT ![s] = TRUE]
                  /\ last' = [NoIO("load", s, Outcome(<<guarded_call(fetchOk)>>)) EXCEPT
                                 !.fetchOk = fetchOk, !.server = server_p,
                                 !.calls = <<"fetch">>, !.returned = Some(server_p)]
                  /\ hist' = [HistLoad(s, u, fetchOk, server_p)
                                EXCEPT !.repeat = Reload(s, fetchOk)]
    /\ UNCHANGED <<remote, sb_session, inflight>>

\* "Submit" button: mark_attempt -> _update_progress -> save_progress, up to
\* and including the first remote read of save_progress.
Submit(s, qid, correct, fetchOk) ==
    /\ sb_session[s] /= None
    /\ progress[s] /= None /\ progress_loaded[s]
    /\ Idle(s)
    /\ LET p == update_progress(progress[s][1], qid, correct)
       IN save_progress(s, "submit", p, [progress EXCEPT ![s] = Some(p)],
                        correct, fetchOk)
    /\ hist' = [HistBegin(hist, s, sb_session[s][1]) EXCEPT !.repeat = "no"]
    /\ UNCHANGED sb_session

\* "Reset progress & settings" button, up to and including the first remote
\* read of its save_progress call.
Reset(s, fetchOk) ==
    /\ sb_session[s] /= None
    /\ progress[s] /= None /\ progress_loaded[s]
    /\ Idle(s)
    /\ save_progress(s, "reset", reset_progress,
                     [progress EXCEPT ![s] = Some(reset_progress)],
                     FALSE, fetchOk)
    /\ hist' = [HistBegin(HistLeave(hist, s, sb_session[s][1]), s, sb_session[s][1])
                  EXCEPT !.repeat = "no"]
    /\ UNCHANGED sb_session

\* save_progress(st.session_state.progress) with the Working copy untouched:
\* the save operation of the UI boundary called on its own, up to and
\* including its first remote read (none when the session is signed out).
Save(s, ok) ==
    /\ progress[s] /= None
    /\ Idle(s)
    /\ sb_session[s] = None => ok
    /\ save_progress(s, "save", progress[s][1], progress, FALSE, ok)
    /\ hist' = IF sb_session[s] = None THEN [hist EXCEPT !.repeat = "no"]
               ELSE LET u == sb_session[s][1]
                        h == IF progress_loaded[s]
                             THEN HistImpure(hist, u)
                             ELSE [HistLeave(hist, s, u) EXCEPT !.fresh[s] = TRUE]
                    IN [HistBegin(h, s, u) EXCEPT !.repeat = "no"]
    /\ UNCHANGED sb_session

\* save_progress after its implicit load: step 1, the remote read of the row.
SaveFetch(s, fetchOk) ==
    /\ inflight[s] /= None /\ inflight[s][1].stage = "loaded"
    /\ LET u == sb_session[s][1]
           locals == inflight[s][1]
           server == fetch_or_default(u, fetchOk)
       IN /\ inflight' =
                [inflight EXCEPT
                    ![s] = Some([locals EXCEPT
                                    !.stage = "fetched", !.server = server,
                                    !.fetchOk = fetchOk,
                                    !.calls = @ \o <<"fetch">>])]
          /\ last' = [NoIO("fetch", s, Outcome(<<guarded_call(fetchOk)>>)) EXCEPT
                         !.fetchOk = fetchOk, !.server = server, !.p = locals.p,
                         !.calls = locals.calls \o <<"fetch">>]
    /\ UNCHANGED <<remote, sb_session, progress, progress_loaded, progress_baseline,
                   hist>>

\* The rest of save_progress: baseline, deltas, merge, upsert and the advance
\* of the Baseline (steps 2 to 5).  `stale` tells that the row was rewritten
\* between the read of step 1 and this upsert.
SaveUpsert(s, upsertOk) ==
    /\ inflight[s] /= None /\ inflight[s][1].stage = "fetched"
    /\ LET u == sb_session[s][1]
           locals == inflight[s][1]
           p == locals.p
           server == locals.server
           stored == progress_baseline[s]
           baseline == IF stored = None THEN server ELSE stored[1]
           merged == Merge(server, baseline, p)
       IN /\ remote' = upsert(u, merged, upsertOk)
          /\ progress_baseline' =
                [progress_baseline EXCEPT
                    ![s] = baseline_after(stored, merged, upsertOk)]
          /\ last' = [op |-> locals.op, sess |-> s,
                      result |-> Outcome(<<guarded_call(locals.fetchOk),
                                           guarded_call(upsertOk)>>),
                      fetchOk |-> locals.fetchOk, upsertOk |-> upsertOk,
                      server |-> server, p |-> p,
                      d_attempts |-> d_attempts(p, baseline),
                      d_correct |-> d_correct(p, baseline),
                      payload |-> merged,
                      calls |-> locals.calls \o <<"upsert">>,
                      returned |-> None,
                      stale |-> locals.fetchOk
                                /\ normalize_progress(remote[u]) /= server]
          /\ hist' = LET h == IF locals.op = "submit"
                              THEN HistSubmit(s, u, locals.correct,
                                              locals.fetchOk, upsertOk)
                              ELSE HistSave(hist, s, u, locals.fetchOk, upsertOk)
                     IN [h EXCEPT !.repeat = locals.repeat]
    /\ inflight' = [inflight EXCEPT ![s] = None]
    /\ UNCHANGED <<sb_session, progress, progress_loaded>>

(***************************************************************************)
(* Initial states: nobody is signed in; the user's row is absent or is the *)
(* row left by answering each question of some set once.                   *)
(***************************************************************************)
InitRows ==
    {[attempts  |-> Cardinality(seen),
      correct   |-> Cardinality(seen \ wrong),
      wrong_ids |-> wrong,
      seen_ids  |-> seen] : <<seen, wrong>> \in
          {sw \in (SUBSET Ids) \X (SUBSET Ids) : sw[2] \subseteq sw[1]}}

Init ==
    /\ remote \in [Users -> {None} \union {Some(r) : r \in InitRows}]
    /\ sb_session = [s \in Sessions |-> None]
    /\ progress = [s \in Sessions |-> None]
    /\ progress_loaded = [s \in Sessions |-> FALSE]
    /\ progress_baseline = [s \in Sessions |-> None]
    /\ inflight = [s \in Sessions |-> None]
    /\ last = NoIO("init", "A", "ok")
    /\ hist = [pure |-> [u \in Users |-> TRUE],
               start |-> [u \in Users |-> Counters(normalize_progress(remote[u]))],
               subs |-> [u \in Users |-> 0],
               cors |-> [u \in Users |-> 0],
               overwritten |-> [u \in Users |-> FALSE],
               snap0 |-> [s \in Sessions |-> None],
               saves |-> [s \in Sessions |-> 0],
               fresh |-> [s \in Sessions |-> FALSE],
               repeat |-> "no"]
    /\ nops = 0
    /\ nfaults = 0

\* The number of failed remote calls among the given outcomes.
Failed(outcomes) == Cardinality({i \in DOMAIN outcomes : ~outcomes[i]})

\* Every handler run of a signed-in session counts against MaxOps, every failed call against MaxFaults.
Budget(outcomes) ==
    /\ nops < MaxOps
    /\ nfaults + Failed(outcomes) <= MaxFaults
    /\ nops' = nops + 1
    /\ nfaults' = nfaults + Failed(outcomes)

\* A further remote call of a handler under way: it counts against MaxFaults
\* when it fails, and the handler run has been counted already.
Continue(outcomes) ==
    /\ nfaults + Failed(outcomes) <= MaxFaults
    /\ nfaults' = nfaults + Failed(outcomes)
    /\ UNCHANGED nops

Next ==
    \/ \E s \in Sessions, u \in Users : LogIn(s, u) /\ UNCHANGED <<nops, nfaults>>
    \/ \E s \in Sessions : Budget(<<>>) /\ LogOut(s)
    \/ \E s \in Sessions, fetchOk \in BOOLEAN : Budget(<<fetchOk>>) /\ PageLoad(s, fetchOk)
    \/ \E s \in Sessions, fetchOk \in BOOLEAN : Budget(<<fetchOk>>) /\ Load(s, fetchOk)
    \/ \E s \in Sessions, qid \in Ids, correct, fetchOk \in BOOLEAN :
          Budget(<<fetchOk>>) /\ Submit(s, qid, correct, fetchOk)
    \/ \E s \in Sessions, fetchOk \in BOOLEAN : Budget(<<fetchOk>>) /\ Reset(s, fetchOk)
    \/ \E s \in Sessions, ok \in BOOLEAN : Budget(<<ok>>) /\ Save(s, ok)
    \/ \E s \in Sessions, fetchOk \in BOOLEAN : Continue(<<fetchOk>>) /\ SaveFetch(s, fetchOk)
    \/ \E s \in Sessions, upsertOk \in BOOLEAN :
          Continue(<<upsertOk>>) /\ SaveUpsert(s, upsertOk)

Spec == Init /\ [][Next]_vars

(***************************************************************************)
(* The merge as a function of its inputs: a signed-in, loaded session is   *)
(* given every remote row R, Baseline B and Working copy W of a bounded    *)
(* set, and calls save_progress(W), then once more with the same W (on the *)
(* same inputs when the first upsert failed, on the merged row otherwise). *)
(***************************************************************************)
\* The bookkeeping of `hist` switched off (no load epoch, no pure run).
HistIdle ==
    [pure |-> [x \in Users |-> FALSE],
     start |-> [x \in Users |-> <<0, 0>>],
     subs |-> [x \in Users |-> 0],
     cors |-> [x \in Users |-> 0],
     overwritten |-> [x \in Users |-> FALSE],
     snap0 |-> [s \in Sessions |-> None],
     saves |-> [s \in Sessions |-> 0],
     fresh |-> progress_loaded,
     repeat |-> "no"]

Snap(a, c, seen, wrong) ==
    [attempts |-> a, correct |-> c, wrong_ids |-> wrong, seen_ids |-> seen]

\* Every snapshot with counters up to MaxCount and id lists over Ids.
SmallSnapshots ==
    {Snap(a, c, seen, wrong) :
        a \in 0..MaxCount, c \in 0..MaxCount, seen \in SUBSET Ids, wrong \in SUBSET Ids}

\* Question 2 answered correctly on top of a shared row.
Scenario1 ==
    [R |-> Snap(10, 7, {"1", "2", "3"}, {"2", "3"}),
     B |-> Snap(10, 7, {"1", "2", "3"}, {"2", "3"}),
     W |-> Snap(11, 8, {"1", "2", "3"}, {"3"})]

\* First save of a new user.
Scenario2 ==
    [R |-> Snap(0, 0, {}, {}),
     B |-> Snap(0, 0, {}, {}),
     W |-> Snap(1, 1, {"5"}, {})]

MergeInputs ==
    [R : SmallSnapshots, B : SmallSnapshots, W : SmallSnapshots]
        \union {Scenario1, Scenario2}

MergeInit ==
    \E in \in MergeInputs : \E s0 \in Sessions : \E u \in Users :
        /\ s0 = CHOOSE s \in Sessions : TRUE
        /\ remote = [x \in Users |-> Some(in.R)]
        /\ sb_session = [s \in Sessions |-> IF s = s0 THEN Some(u) ELSE None]
        /\ progress = [s \in Sessions |-> IF s = s0 THEN Some(in.W) ELSE None]
        /\ progress_loaded = [s \in Sessions |-> s = s0]
        /\ progress_baseline = [s \in Sessions |-> IF s = s0 THEN Some(in.B) ELSE None]
        /\ inflight = [s \in Sessions |-> None]
        /\ last = NoIO("init", s0, "ok")
        /\ hist = HistIdle
        /\ nops = 0
        /\ nfaults = 0

MergeNext ==
    \/ \E s \in Sessions :
          hist.repeat = "no" /\ Budget(<<>>) /\ Save(s, TRUE)
    \/ \E s \in Sessions, upsertOk \in BOOLEAN :
          Continue(<<upsertOk>>) /\ SaveUpsert(s, upsertOk)

MergeSpec == MergeInit /\ [][MergeNext]_vars

(***************************************************************************)
(* Saves of different sessions overlapping at the remote store: the remote *)
(* read and the upsert of save_progress are separate steps, and another    *)
(* session's step may fall between them.  Both sessions are signed in as   *)
(* the same user and have loaded the same row; every remote call succeeds. *)
(***************************************************************************)
\* hist after every session has loaded the row of user u.
HistLoaded(u) ==
    [pure |-> [x \in Users |-> TRUE],
     start |-> [x \in Users |-> Counters(normalize_progress(remote[x]))],
     subs |-> [x \in Users |-> 0],
     cors |-> [x \in Users |-> 0],
     overwritten |-> [x \in Users |-> FALSE],
     snap0 |-> [s \in Sessions |->
                  Some(<<u, normalize_progress(remote[u]).attempts,
                         normalize_progress(remote[u]).correct>>)],
     saves |-> [s \in Sessions |-> 0],
     fresh |-> [s \in Sessions |-> TRUE],
     repeat |-> "no"]

RaceInit ==
    \E u \in Users :
        /\ remote \in [Users -> {None} \union {Some(r) : r \in InitRows}]
        /\ sb_session = [s \in Sessions |-> Some(u)]
        /\ progress = [s \in Sessions |-> Some(normalize_progress(remote[u]))]
        /\ progress_loaded = [s \in Sessions |-> TRUE]
        /\ progress_baseline = [s \in Sessions |-> Some(normalize_progress(remote[u]))]
        /\ inflight = [s \in Sessions |-> None]
        /\ last = NoIO("init", CHOOSE s \in Sessions : TRUE, "ok")
        /\ hist = HistLoaded(u)
        /\ nops = 0
        /\ nfaults = 0

RaceNext ==
    \/ \E s \in Sessions, qid \in Ids, correct \in BOOLEAN :
          Budget(<<>>) /\ Submit(s, qid, correct, TRUE)
    \/ \E s \in Sessions : Budget(<<>>) /\ Reset(s, TRUE)
    \/ \E s \in Sessions : Budget(<<>>) /\ Save(s, TRUE)
    \/ \E s \in Sessions : Continue(<<>>) /\ SaveUpsert(s, TRUE)

RaceSpec == RaceInit /\ [][RaceNext]_vars

(***************************************************************************)
(* One session on its own, answering two questions, every remote call      *)
(* succeeding.  hist.verdict keeps, per question, the verdict of the most  *)
(* recent submission of the session ("none" while not answered).           *)
(***************************************************************************)
SoloIds == {"1", "2"}

\* The rows left by answering each question of some set once.
SoloRows ==
    {Snap(Cardinality(sw[1]), Cardinality(sw[1] \ sw[2]), sw[1], sw[2]) :
        sw \in {x \in (SUBSET SoloIds) \X (SUBSET SoloIds) : x[2] \subseteq x[1]}}

SoloInit ==
    \E s0 \in Sessions : \E u \in Users :
        /\ s0 = CHOOSE s \in Sessions : TRUE
        /\ remote \in [Users -> {None} \union {Some(r) : r \in SoloRows}]
        /\ sb_session = [s \in Sessions |-> IF s = s0 THEN Some(u) ELSE None]
        /\ progress = [s \in Sessions |-> None]
        /\ progress_loaded = [s \in Sessions |-> FALSE]
        /\ progress_baseline = [s \in Sessions |-> None]
        /\ inflight = [s \in Sessions |-> None]
        /\ last = NoIO("init", s0, "ok")
        /\ hist = HistIdle @@ [verdict |-> [q \in SoloIds |-> "none"]]
        /\ nops = 0
        /\ nfaults = 0

\* "Submit" button, up to and including the remote read of save_progress
\* (which succeeds): mark_attempt -> _update_progress -> save_progress.
SoloSubmit(s, qid, correct) ==
    /\ sb_session[s] /= None
    /\ progress[s] /= None /\ progress_loaded[s]
    /\ Idle(s)
    /\ LET p == update_progress(progress[s][1], qid, correct)
       IN save_progress(s, "submit", p, [progress EXCEPT ![s] = Some(p)],
                        correct, TRUE)
    /\ hist' = [hist EXCEPT !.verdict[qid] = IF correct THEN "right" ELSE "wrong"]
    /\ UNCHANGED sb_session

SoloNext ==
    \/ \E s \in Sessions : Budget(<<>>) /\ PageLoad(s, TRUE)
    \/ \E s \in Sessions, qid \in SoloIds, correct \in BOOLEAN :
          Budget(<<>>) /\ SoloSubmit(s, qid, correct)
    \/ \E s \in Sessions : Continue(<<>>) /\ SaveUpsert(s, TRUE)

SoloSpec == SoloInit /\ [][SoloNext]_vars

(***************************************************************************)
(* Properties                                                              *)
(***************************************************************************)
\* The normalized remote row of user u.
Rem(u) == normalize_progress(remote[u])
RemNext(u) == normalize_progress(remote'[u])

\* The handler that just ran (the step's post-state `last`) was a save of
\* session s that reached the merge.
SavedBy(s) == last'.sess = s /\ last'.op \in SaveOps /\ last'.result = "ok"

\* C1 -- Cross-session additivity.  Sessions a and b loaded the same remote
\* counters R0 (hist.snap0) and no failed-read save has overwritten the row
\* since; a has saved (all of its local increments a1 = Working - R0 are
\* saved: Working = Baseline) and b has not yet had a successful save, so b's
\* Baseline is still R0.  Then a save of b whose fetch and upsert succeed,
\* the fetch seeing the row a left (the row was not rewritten between b's
\* read and b's upsert), leaves remote = R0 + a1 + a2, with a2 = b's Working
\* - R0, in attempts and in correct.
C1_CrossSessionAdditivity ==
    [][\A a, b \in Sessions :
         (/\ a /= b
          /\ hist.snap0[a] /= None
          /\ hist.snap0[a] = hist.snap0[b]
          /\ hist.saves[a] >= 1
          /\ hist.saves[b] = 0
          /\ Counters(progress[a][1]) = Counters(progress_baseline[a][1])
          /\ SavedBy(b) /\ last'.fetchOk /\ last'.upsertOk /\ ~last'.stale
          /\ hist'.snap0[b] /= None)
         => LET u == hist.snap0[a][1][1]
                r0a == hist.snap0[a][1][2]
                r0c == hist.snap0[a][1][3]
                a1 == progress[a][1].attempts - r0a
                c1 == progress[a][1].correct - r0c
                a2 == progress'[b][1].attempts - r0a
                c2 == progress'[b][1].correct - r0c
            IN /\ last'.d_attempts = a2
               /\ last'.d_correct = c2
               /\ RemNext(u).attempts = r0a + a1 + a2
               /\ RemNext(u).correct = r0c + c1 + c2]_vars

\* C1 witness: b has just saved one local attempt, a correct answer,
\* second, after a saved one attempt, both from the same loaded R0.
C1_Witness ==
    \E a, b \in Sessions :
        /\ a /= b
        /\ hist.snap0[a] /= None
        /\ hist.snap0[a] = hist.snap0[b]
        /\ hist.saves[a] >= 1
        /\ hist.saves[b] = 1
        /\ last.sess = b /\ last.op \in SaveOps /\ last.fetchOk /\ last.upsertOk
        /\ ~last.stale
        /\ last.d_attempts = 1 /\ last.d_correct = 1
        /\ progress[a][1].attempts = hist.snap0[a][1][2] + 1
        /\ Rem(hist.snap0[a][1][1]).attempts = hist.snap0[a][1][2] + 2

\* C2 -- No attempt is lost across sessions.  While the behaviour consists
\* only of loads whose read succeeds and of answer submissions whose save
\* succeeds in fetch and upsert and overlaps no other save (hist.pure), once
\* no save is under way the remote attempts equal the initial remote attempts
\* plus the number of submissions, and the remote correct equal the initial
\* correct plus the number of correct submissions.
C2_NoAttemptLost ==
    \A u \in Users :
        (hist.pure[u] /\ \A s \in Sessions : Idle(s)) =>
            /\ Rem(u).attempts = hist.start[u][1] + hist.subs[u]
            /\ Rem(u).correct = hist.start[u][2] + hist.cors[u]

\* The upsert step of a save of session s with the Working copy untouched,
\* the save directly following a successful save of s (no step of any
\* session between the two saves), and no other session having written the
\* row between this save's read and its upsert.
RepeatedSave(s) ==
    /\ inflight[s] /= None
    /\ inflight[s][1].prev.op \in SaveOps
    /\ inflight[s][1].prev.result = "ok"
    /\ inflight[s][1].prev.upsertOk
    /\ inflight[s][1].prev.p = inflight[s][1].p
    /\ SavedBy(s) /\ last'.op = "save" /\ ~last'.stale

NoFurtherIncrease(s) ==
    LET u == sb_session[s][1]
    IN /\ last'.d_attempts = 0
       /\ last'.d_correct = 0
       /\ RemNext(u).attempts <= Rem(u).attempts
       /\ RemNext(u).correct <= Rem(u).correct

\* C3 -- No double count under repeated save: in every reachable state, a
\* save that directly follows a successful save of the same session with
\* Working unchanged, no other session writing in between, has d_attempts =
\* d_correct = 0 and does not raise the remote attempts or correct.
C3_NoDoubleCount ==
    [][\A s \in Sessions : RepeatedSave(s) => NoFurtherIncrease(s)]_vars

\* The Baseline of session s before and after a save of s that upserted.
BaselineStep(s) ==
    /\ SavedBy(s) /\ last'.upsertOk
    /\ progress_baseline[s] /= None

BaselineNotLowered(s) ==
    /\ progress_baseline'[s][1].attempts >= progress_baseline[s][1].attempts
    /\ progress_baseline'[s][1].correct >= progress_baseline[s][1].correct

\* C4 -- Monotonic baselines: every save of a session leaves its Baseline's
\* attempts and correct at least what they were, whatever the other sessions
\* did in between.
C4_MonotonicBaselines ==
    [][\A s \in Sessions : BaselineStep(s) => BaselineNotLowered(s)]_vars

RemoteCountersNotLowered ==
    \A u \in Users :
        /\ RemNext(u).attempts >= Rem(u).attempts
        /\ RemNext(u).correct >= Rem(u).correct

\* C5 -- Remote counters never decrease: every step of every session leaves
\* the stored attempts and correct at least what they were.
C5_RemoteNeverDecreases ==
    [][RemoteCountersNotLowered]_vars

\* C6 -- wrong_ids correction precedence: for every save, an id X that the
\* fetched remote wrong_ids holds and that the Working copy passed to the
\* save has in seen_ids but not in wrong_ids is not in the merged wrong_ids
\* of the payload, nor in the stored row once the upsert succeeded.
C6_CorrectionPrecedence ==
    [][\A s \in Sessions : \A X \in Ids :
         (/\ SavedBy(s)
          /\ X \in last'.server.wrong_ids
          /\ X \in last'.p.seen_ids
          /\ X \notin last'.p.wrong_ids)
         => /\ X \notin last'.payload.wrong_ids
            /\ last'.upsertOk => X \notin RemNext(sb_session[s][1]).wrong_ids]_vars

\* C6 witness: a submission answered X correctly while the fetched remote
\* row still listed X as wrong; the stored row no longer lists it.
C6_Witness ==
    \E s \in Sessions : \E X \in Ids :
        /\ last.sess = s /\ last.op = "submit" /\ last.result = "ok"
        /\ last.fetchOk /\ last.upsertOk
        /\ X \in last.server.wrong_ids
        /\ X \in last.p.seen_ids /\ X \notin last.p.wrong_ids
        /\ X \notin Rem(sb_session[s][1]).wrong_ids
        /\ X \in Rem(sb_session[s][1]).seen_ids

RemoteSeenKept ==
    \A u \in Users : Rem(u).seen_ids \subseteq RemNext(u).seen_ids

\* C7 -- seen status is monotonic on the remote: every step keeps every id
\* of the remote seen_ids.
C7_SeenMonotonic ==
    [][RemoteSeenKept]_vars

\* The upsert step of a save of session s, the upsert failing.
FailedUpsertStep(s) == SavedBy(s) /\ ~last'.upsertOk

\* The upsert step of the save that follows a failed upsert of session s
\* directly (no step of any session between the two saves), with the same
\* Working copy, the row not rewritten by others between this save's read
\* and its upsert, and the upsert succeeding.
RetryStep(s) ==
    /\ inflight[s] /= None
    /\ inflight[s][1].prev.op \in SaveOps
    /\ inflight[s][1].prev.result = "ok"
    /\ ~inflight[s][1].prev.upsertOk
    /\ inflight[s][1].prev.p = inflight[s][1].p
    /\ SavedBy(s) /\ last'.op = "save" /\ last'.upsertOk /\ ~last'.stale

RetryAddsSameDelta(s) ==
    LET u == sb_session[s][1]
        prev == inflight[s][1].prev
    IN /\ last'.d_attempts = prev.d_attempts
       /\ last'.d_correct = prev.d_correct
       /\ RemNext(u).attempts = Rem(u).attempts + prev.d_attempts
       /\ RemNext(u).correct = Rem(u).correct + prev.d_correct

\* C8 as stated -- Upsert failure keeps the delta window: a save whose upsert
\* fails leaves the remote row as it was and the session's Baseline what it
\* was before the save was called, and the next save with the same Working
\* (remote unchanged by others, upsert succeeding) adds the same d_attempts
\* and d_correct to the remote.
C8_UpsertFailureKeepsWindow_AsStated ==
    [][\A s \in Sessions :
         /\ FailedUpsertStep(s) =>
               /\ remote' = remote
               /\ progress_baseline'[s] = inflight[s][1].base0
         /\ RetryStep(s) => RetryAddsSameDelta(s)]_vars

\* C8 amended -- a save whose upsert fails leaves the remote row as it was;
\* the session's Baseline is what it was before the save was called when the
\* session had loaded before, and the snapshot the save's implicit load
\* returned when it had not (it held no Baseline before the save); and the
\* next save with the same Working (remote unchanged by others) whose remote
\* read succeeds as well as its upsert adds the same d_attempts and
\* d_correct to the remote.
C8_UpsertFailureKeepsWindow ==
    [][\A s \in Sessions :
         /\ FailedUpsertStep(s) =>
               /\ remote' = remote
               /\ inflight[s][1].loaded = None =>
                     /\ last'.calls = <<"fetch", "upsert">>
                     /\ progress_baseline'[s] = inflight[s][1].base0
               /\ inflight[s][1].loaded /= None =>
                     /\ last'.calls = <<"fetch", "fetch", "upsert">>
                     /\ inflight[s][1].base0 = None
                     /\ progress_baseline'[s] = inflight[s][1].loaded
         /\ (RetryStep(s) /\ last'.fetchOk) => RetryAddsSameDelta(s)]_vars

\* A save that made the implicit load has just failed in its upsert: the
\* session holds the loaded row as its Baseline, the stored row is untouched.
C8_ImplicitLoadCase ==
    \E s \in Sessions :
        /\ last.sess = s /\ last.op = "save" /\ last.result = "ok"
        /\ last.calls = <<"fetch", "fetch", "upsert">> /\ ~last.upsertOk
        /\ progress_baseline[s] /= None
        /\ progress_baseline[s][1].attempts >= 1

\* C8 witness: the retry after a failed upsert has just added the pending
\* attempt and correct answer to a remote row that already had attempts.
C8_Witness ==
    \E s \in Sessions :
        /\ hist.repeat = "afterFail"
        /\ last.sess = s /\ last.op = "save" /\ last.fetchOk /\ last.upsertOk
        /\ ~last.stale
        /\ last.d_attempts = 1 /\ last.d_correct = 1
        /\ last.server.attempts >= 1
        /\ Rem(sb_session[s][1]).attempts = last.server.attempts + 1
        /\ progress_baseline[s] = Some(last.payload)

\* C9 -- Save on fetch failure degrades to an overwrite: a save whose remote
\* read fails still runs to its upsert, and its payload is attempts =
\* d_attempts, correct = d_correct, seen_ids = Working.seen_ids, wrong_ids =
\* Working.wrong_ids (the deltas being those against the Baseline); that
\* payload is the stored row once the upsert succeeded.
C9_FetchFailureOverwrites ==
    [][\A s \in Sessions :
         (SavedBy(s) /\ ~last'.fetchOk)
         => /\ last'.payload = [attempts  |-> last'.d_attempts,
                                correct   |-> last'.d_correct,
                                seen_ids  |-> last'.p.seen_ids,
                                wrong_ids |-> last'.p.wrong_ids]
            /\ (progress_loaded[s] /\ progress_baseline[s] /= None) =>
                  /\ last'.d_attempts =
                        max0(last'.p.attempts - progress_baseline[s][1].attempts)
                  /\ last'.d_correct =
                        max0(last'.p.correct - progress_baseline[s][1].correct)
            /\ last'.upsertOk => remote'[sb_session[s][1]] = Some(last'.payload)]_vars

\* C9 witness: a submission was saved although the read failed; the stored
\* row holds the delta 1, below the Working attempts.
C9_Witness ==
    \E s \in Sessions :
        /\ last.sess = s /\ last.op = "submit" /\ last.result = "ok"
        /\ ~last.fetchOk /\ last.upsertOk
        /\ last.d_attempts = 1
        /\ last.p.attempts >= 2
        /\ Rem(sb_session[s][1]).attempts = 1
        /\ Rem(sb_session[s][1]).seen_ids = last.p.seen_ids

\* C10 -- Load absorbs read problems: a load of a signed-in session whose
\* row is missing or whose read fails completes, returns the default
\* snapshot (attempts 0, correct 0, no ids) as Working and records the same
\* as Baseline.
C10_LoadAbsorbsReadProblems ==
    [][\A s \in Sessions :
         (/\ last'.op = "load" /\ last'.sess = s
          /\ sb_session[s] /= None
          /\ ~last'.fetchOk \/ remote[sb_session[s][1]] = None)
         => LET default == [attempts |-> 0, correct |-> 0,
                            wrong_ids |-> {}, seen_ids |-> {}]
            IN /\ last'.result = "ok"
               /\ progress'[s] = Some(default)
               /\ progress_baseline'[s] = Some(default)
               /\ progress_loaded'[s]]_vars

\* C10 witness: the read of a load failed while the user's row exists and
\* has attempts; Working and Baseline are the default snapshot.
C10_Witness ==
    \E s \in Sessions :
        /\ last.sess = s /\ last.op = "load" /\ ~last.fetchOk
        /\ sb_session[s] /= None
        /\ Rem(sb_session[s][1]).attempts >= 1
        /\ progress[s] /= None /\ progress[s][1].attempts = 0
        /\ progress[s][1].seen_ids = {}
        /\ progress_baseline[s] = progress[s]

\* C11 -- Load without identity fails cleanly: a load called by a session
\* that is not signed in raises, makes no remote call, hands nothing back,
\* and leaves the session's Baseline, Working copy and loaded flag and every
\* remote row as they were.
C11_LoadWithoutIdentity ==
    [][\A s \in Sessions :
         (last'.op = "load" /\ last'.sess = s /\ sb_session[s] = None)
         => /\ last'.result = "raised"
            /\ last'.calls = <<>>
            /\ last'.returned = None
            /\ remote' = remote
            /\ progress_baseline' = progress_baseline
            /\ progress' = progress
            /\ progress_loaded' = progress_loaded]_vars

\* C11 witness: a signed-out session that still holds a Working copy with
\* attempts called load while the user's row exists; it raised and the
\* session holds no Baseline.
C11_Witness ==
    \E s \in Sessions :
        /\ last.op = "load" /\ last.sess = s /\ last.result = "raised"
        /\ sb_session[s] = None
        /\ progress[s] /= None /\ progress[s][1].attempts >= 1
        /\ progress_baseline[s] = None /\ ~progress_loaded[s]
        /\ \E u \in Users : Rem(u).attempts >= 1

\* C12 -- Save without identity is fatal to the operation: a save called by a
\* session that is not signed in surfaces an error to its caller (raises) and
\* makes no upsert, whether the session has loaded or not.
C12_SaveWithoutIdentity ==
    [][\A s \in Sessions :
         (last'.op \in SaveOps /\ last'.sess = s /\ sb_session[s] = None)
         => /\ last'.result = "raised"
            /\ \A i \in DOMAIN last'.calls : last'.calls[i] /= "upsert"
            /\ remote' = remote]_vars

\* C13 -- Load establishes the session: right after a load whose remote read
\* succeeded, the snapshot handed back (stored as Working), the session's
\* Baseline and the normalized remote row of the user are the same in
\* attempts, correct, seen_ids and wrong_ids, and the session is loaded.
C13_LoadEstablishesSession ==
    [][\A s \in Sessions :
         (last'.op = "load" /\ last'.sess = s /\ last'.result = "ok" /\ last'.fetchOk)
         => LET row == RemNext(sb_session[s][1])
            IN /\ last'.returned = Some(row)
               /\ progress'[s] = Some(row)
               /\ progress_baseline'[s] = Some(row)
               /\ progress_loaded'[s]]_vars

\* C13 witness: a session has just loaded a row with attempts and ids;
\* Working and Baseline are that row and the session is loaded.
C13_Witness ==
    \E s \in Sessions :
        /\ last.op = "load" /\ last.sess = s /\ last.result = "ok" /\ last.fetchOk
        /\ Rem(sb_session[s][1]).attempts >= 2
        /\ Rem(sb_session[s][1]).seen_ids /= {}
        /\ last.returned = Some(Rem(sb_session[s][1]))
        /\ progress[s] = last.returned
        /\ progress_baseline[s] = last.returned
        /\ progress_loaded[s]

\* A load of session s directly follows a completed load of s: nothing
\* touched the Working copy or the remote row in between.
ConsecutiveLoads(s) ==
    /\ last.op = "load" /\ last.sess = s /\ last.result = "ok"
    /\ last'.op = "load" /\ last'.sess = s /\ last'.result = "ok"

SameLoadResult(s) ==
    /\ last'.returned = last.returned
    /\ progress_baseline'[s] = progress_baseline[s]

\* C14 as stated -- Load is idempotent: two consecutive loads of a session
\* hand back equal snapshots and leave equal Baselines, whatever the outcomes
\* of the two remote reads.
C14_LoadIdempotent_AsStated ==
    [][\A s \in Sessions : ConsecutiveLoads(s) => SameLoadResult(s)]_vars

\* C14 amended -- the same when the two remote reads have the same outcome
\* (both succeed or both fail).
C14_LoadIdempotent ==
    [][\A s \in Sessions :
         (ConsecutiveLoads(s) /\ last'.fetchOk = last.fetchOk)
         => SameLoadResult(s)]_vars

\* C14 witness: a second load directly after a load, both reads succeeding,
\* handed back the same row with attempts, and the Baseline is that row.
C14_Witness ==
    \E s \in Sessions :
        /\ hist.repeat = "reloadSame"
        /\ last.op = "load" /\ last.sess = s /\ last.fetchOk
        /\ last.server.attempts >= 1
        /\ last.returned = Some(last.server)
        /\ progress_baseline[s] = Some(last.server)

\* C15 -- Save returns the merged snapshot: every save that reaches the merge
\* hands back to its caller the merged snapshot it computed (the payload),
\* whether the upsert succeeds or fails.
C15_SaveReturnsMerged ==
    [][\A s \in Sessions :
         SavedBy(s) => last'.returned = Some(last'.payload)]_vars

\* A snapshot held as <<>> or <<snapshot>> keeps wrong_ids inside seen_ids.
WrongWithinSeen(x) == x /= None => x[1].wrong_ids \subseteq x[1].seen_ids

\* C16 -- wrong_ids is a subset of seen_ids everywhere: in every reachable
\* state (any interleaving of loads, submissions, resets and saves of the
\* sessions, with failed reads and writes), the remote row, every session's
\* Working copy and every session's Baseline have wrong_ids within seen_ids.
C16_WrongSubsetOfSeen ==
    /\ \A u \in Users : WrongWithinSeen(remote[u])
    /\ \A s \in Sessions :
          /\ WrongWithinSeen(progress[s])
          /\ WrongWithinSeen(progress_baseline[s])

\* C16 witness: a save has just merged a Working copy that lists X as wrong
\* into a remote row that had not seen X, after a save of another session;
\* the stored row has X in wrong_ids and in seen_ids.
C16_Witness ==
    \E s \in Sessions : \E X \in Ids :
        /\ last.sess = s /\ last.op \in SaveOps /\ last.result = "ok" /\ last.upsertOk
        /\ X \in last.p.wrong_ids
        /\ X \notin last.server.seen_ids
        /\ X \in Rem(sb_session[s][1]).wrong_ids
        /\ X \in Rem(sb_session[s][1]).seen_ids
        /\ progress_baseline[s] = Some(last.payload)
        /\ \E o \in Sessions \ {s} :
              progress[o] /= None /\ progress_baseline[o] /= None

\* A snapshot held as <<>> or <<snapshot>> has correct <= attempts.
CorrectWithinAttempts(x) == x /= None => x[1].correct <= x[1].attempts

\* C17 -- correct never exceeds attempts: in every reachable state (any
\* interleaving of loads, submissions, resets and saves of the sessions, with
\* failed reads and writes), the remote row and every session's Baseline
\* have correct <= attempts.
C17_CorrectWithinAttempts ==
    /\ \A u \in Users : CorrectWithinAttempts(remote[u])
    /\ \A s \in Sessions : CorrectWithinAttempts(progress_baseline[s])

\* C18 -- Failures never block the user: every load and every step of every
\* save of a signed-in session (the implicit load, the remote read, the
\* upsert) returns normally, whatever the outcome of its remote call, and
\* after a submission the Working copy holds the answer just given.
C18_FailuresNeverBlock ==
    [][\A s \in Sessions :
         (/\ last'.sess = s
          /\ last'.op \in SaveOps \union {"load", "saveload", "fetch"}
          /\ sb_session[s] /= None)
         => /\ last'.result = "ok"
            /\ last'.op \in {"saveload", "fetch"} => inflight'[s] /= None
            /\ last'.op = "submit" => progress'[s] = Some(last'.p)]_vars

\* C18 witness: a submission whose remote read and upsert both failed has
\* completed; the Working copy counts the answer, the remote row does not.
C18_Witness ==
    \E s \in Sessions :
        /\ last.sess = s /\ last.op = "submit" /\ last.result = "ok"
        /\ ~last.fetchOk /\ ~last.upsertOk
        /\ last.calls = <<"fetch", "upsert">>
        /\ progress[s] = Some(last.p)
        /\ last.p.attempts >= 1
        /\ Rem(sb_session[s][1]).attempts < last.p.attempts

\* The reference merge of R, B and W, written out from the four formulas.
Reference(R, B, W) ==
    [attempts  |-> R.attempts +
                     (IF W.attempts - B.attempts > 0 THEN W.attempts - B.attempts ELSE 0),
     correct   |-> R.correct +
                     (IF W.correct - B.correct > 0 THEN W.correct - B.correct ELSE 0),
     seen_ids  |-> R.seen_ids \union W.seen_ids,
     wrong_ids |-> (R.wrong_ids \union W.wrong_ids) \ (W.seen_ids \ W.wrong_ids)]

\* C19 -- The merge equals its reference formula: for every fetched remote
\* row R, Baseline B and Working copy W of the bounded input set, the payload
\* of the save, and the stored row once the upsert succeeded, is
\* R.attempts + max(0, W.attempts - B.attempts), R.correct + max(0, W.correct
\* - B.correct), R.seen_ids | W.seen_ids, (R.wrong_ids | W.wrong_ids) -
\* (W.seen_ids - W.wrong_ids); R = B = {10, 7, seen {1,2,3}, wrong {2,3}} with
\* W = {11, 8, seen {1,2,3}, wrong {3}} gives {11, 8, seen {1,2,3}, wrong {3}},
\* and default R and B with W = {1, 1, seen {5}, wrong {}} gives W.
C19_MergeReference ==
    [][\A s \in Sessions :
         (SavedBy(s) /\ last'.fetchOk /\ progress_baseline[s] /= None)
         => LET u == sb_session[s][1]
                R == last'.server
                B == progress_baseline[s][1]
                W == progress[s][1]
                in == [R |-> R, B |-> B, W |-> W]
            IN /\ last'.payload = Reference(R, B, W)
               /\ last'.upsertOk => remote'[u] = Some(Reference(R, B, W))
               /\ in = Scenario1 =>
                     last'.payload = Snap(11, 8, {"1", "2", "3"}, {"3"})
               /\ in = Scenario2 =>
                     last'.payload = Snap(1, 1, {"5"}, {})]_vars

\* C19 witness: the first scenario has been saved and the stored row is
\* {11, 8, seen {1,2,3}, wrong {3}}.
C19_Witness ==
    \E s \in Sessions :
        /\ last.sess = s /\ last.op = "save" /\ last.result = "ok"
        /\ last.fetchOk /\ last.upsertOk
        /\ last.server = Scenario1.R
        /\ last.p = Scenario1.W
        /\ last.d_attempts = 1 /\ last.d_correct = 1
        /\ remote[sb_session[s][1]] = Some(Snap(11, 8, {"1", "2", "3"}, {"3"}))

\* The step is the upsert of session b's save, directly after the upsert of
\* session a's save, both saves having read the row before either upsert
\* (b's read came before a's upsert: b's save was in flight then), all four
\* remote calls succeeding.
SecondRacingUpsert(a, b) ==
    /\ a /= b
    /\ last.sess = a /\ last.op \in SaveOps /\ last.result = "ok"
    /\ last.fetchOk /\ last.upsertOk
    /\ inflight[b] /= None /\ inflight[b][1].fetchOk
    /\ inflight[b][1].server = last.server
    /\ last'.sess = b /\ last'.op \in SaveOps /\ last'.result = "ok"
    /\ last'.upsertOk

\* C20 -- Racing saves keep both counter contributions: when two sessions
\* both read the row R before either upserts, the remote attempts and correct
\* after both upserts are R plus d_a plus d_b, in either upsert order.
C20_RacingSavesKeepBoth ==
    [][\A a, b \in Sessions :
         SecondRacingUpsert(a, b)
         => LET u == sb_session[b][1]
            IN /\ RemNext(u).attempts =
                     last.server.attempts + last.d_attempts + last'.d_attempts
               /\ RemNext(u).correct =
                     last.server.correct + last.d_correct + last'.d_correct]_vars

\* C21 -- A corrected id can be resurrected: every save writes each id of
\* the Working wrong_ids into the merged wrong_ids, also when the fetched
\* remote row has seen the id and no longer lists it as wrong; so after
\* session b's save removed X from the remote wrong_ids, a save of session a
\* that still holds X in its Working wrong_ids puts X back (the execution
\* is the witness).
C21_WorkingWrongIsWritten ==
    [][\A s \in Sessions : \A X \in Ids :
         (SavedBy(s) /\ X \in last'.p.wrong_ids)
         => /\ X \in last'.payload.wrong_ids
            /\ last'.upsertOk => X \in RemNext(sb_session[s][1]).wrong_ids]_vars

\* C21 witness: session a loaded a row listing X as wrong and has answered
\* nothing since (first save of its load epoch, Working counters as loaded);
\* session b answered X correctly and its save removed X from the remote
\* wrong_ids (the row a's save fetched has seen X and does not list it; b's
\* Baseline is what b wrote); a's save has just put X back.
C21_Witness ==
    \E a, b \in Sessions : \E X \in Ids :
        /\ a /= b
        /\ sb_session[a] /= None /\ sb_session[b] = sb_session[a]
        /\ last.sess = a /\ last.op = "save" /\ last.result = "ok"
        /\ last.fetchOk /\ last.upsertOk
        /\ hist.snap0[a] /= None /\ hist.saves[a] = 1
        /\ hist.snap0[b] = hist.snap0[a]
        /\ last.p.attempts = hist.snap0[a][1][2]
        /\ last.d_attempts = 0
        /\ X \in last.p.wrong_ids
        /\ X \in last.server.seen_ids /\ X \notin last.server.wrong_ids
        /\ progress[b] /= None /\ progress_baseline[b] /= None
        /\ X \in progress[b][1].seen_ids /\ X \notin progress[b][1].wrong_ids
        /\ X \notin progress_baseline[b][1].wrong_ids
        /\ progress_baseline[b][1].attempts = last.server.attempts
        /\ X \in Rem(sb_session[a][1]).wrong_ids

\* C22 -- Working is never behind Baseline: in every reachable state, every
\* loaded session has Working.attempts >= Baseline.attempts and
\* Working.correct >= Baseline.correct, whatever the other sessions did.
C22_WorkingNotBehindBaseline ==
    \A s \in Sessions :
        (progress_loaded[s] /\ progress[s] /= None /\ progress_baseline[s] /= None)
        => /\ progress[s][1].attempts >= progress_baseline[s][1].attempts
           /\ progress[s][1].correct >= progress_baseline[s][1].correct

ProgressKeys == {"attempts", "correct", "wrong_ids", "seen_ids"}

\* C23 -- A successful save re-baselines to what it wrote: right after a
\* save whose upsert succeeded, the user's remote row is the merged payload
\* of that save (the whole row is replaced, whatever another session wrote
\* between this save's read and its upsert), the session's Baseline is that
\* same snapshot, and both hold the four progress fields only.
C23_SaveRebaselines ==
    [][\A s \in Sessions :
         (SavedBy(s) /\ last'.upsertOk)
         => /\ remote'[sb_session[s][1]] = Some(last'.payload)
            /\ progress_baseline'[s] = Some(last'.payload)
            /\ DOMAIN last'.payload = ProgressKeys
            /\ DOMAIN progress_baseline'[s][1] = ProgressKeys]_vars

\* C23 witness: a save has upserted after the other session rewrote the row
\* it had read; the row and the session's Baseline are its payload, which
\* counts its own answer on top of the row it read and lists a wrong id.
C23_Witness ==
    \E s \in Sessions :
        /\ last.sess = s /\ last.op \in SaveOps /\ last.result = "ok"
        /\ last.fetchOk /\ last.upsertOk /\ last.stale
        /\ last.d_attempts = 1
        /\ last.payload.wrong_ids /= {}
        /\ remote[sb_session[s][1]] = Some(last.payload)
        /\ progress_baseline[s] = Some(last.payload)

\* C24 -- Save before load performs an implicit load: a save called in a
\* signed-in session that has not loaded first loads (one more remote read;
\* the session becomes loaded and the loaded snapshot L, the fetched row or
\* the default when that read failed, is the Baseline), then reads the row
\* again and merges the passed Working copy W against L; the remote row and
\* the Baseline afterwards are those of a load followed by save(W): the row
\* is the reference merge of the fetched R, L and W when the upsert
\* succeeded and untouched otherwise, the Baseline is that merge, or L when
\* the upsert failed.
C24_SaveBeforeLoad ==
    [][\A s \in Sessions :
         /\ (last'.sess = s /\ last'.op = "saveload")
            => LET u == sb_session[s][1]
                   L == last'.server
               IN /\ ~progress_loaded[s] /\ progress_loaded'[s]
                  /\ L \in {Rem(u), Snap(0, 0, {}, {})}
                  /\ progress_baseline'[s] = Some(L)
                  /\ last'.p = progress[s][1]
                  /\ remote' = remote
         /\ (last'.sess = s /\ last'.op = "fetch" /\ inflight[s] /= None)
            => /\ last'.server \in {Rem(sb_session[s][1]), Snap(0, 0, {}, {})}
               /\ last'.p = inflight[s][1].p
               /\ UNCHANGED <<remote, progress_baseline, progress_loaded>>
         /\ (SavedBy(s) /\ last'.calls = <<"fetch", "fetch", "upsert">>)
            => LET u == sb_session[s][1]
                   L == progress_baseline[s][1]
                   merged == Reference(last'.server, L, last'.p)
               IN /\ last'.p = inflight[s][1].p
                  /\ last'.server = inflight[s][1].server
                  /\ progress_loaded'[s]
                  /\ last'.payload = merged
                  /\ remote' = IF last'.upsertOk
                                 THEN [remote EXCEPT ![u] = Some(merged)]
                                 ELSE remote
                  /\ progress_baseline'[s] = IF last'.upsertOk THEN Some(merged)
                                                               ELSE Some(L)]_vars

\* C24 witness: a session that signed in again saved the Working copy kept
\* from before without loading first; the save loaded the row, counted the
\* attempts the Working copy had beyond it and wrote the sum.
C24_Witness ==
    \E s \in Sessions :
        /\ last.sess = s /\ last.op = "save" /\ last.result = "ok"
        /\ last.calls = <<"fetch", "fetch", "upsert">>
        /\ last.fetchOk /\ last.upsertOk
        /\ progress[s] = Some(last.server)
        /\ last.server.attempts >= 1
        /\ last.d_attempts = last.p.attempts - last.server.attempts
        /\ last.d_attempts >= 1
        /\ progress_loaded[s]
        /\ progress_baseline[s] = Some(last.payload)
        /\ Rem(sb_session[s][1]).attempts = last.server.attempts + last.d_attempts

\* Session s is the only session that has ever loaded or saved.
OnlySession(s) == \A o \in Sessions \ {s} : progress[o] = None

\* C25 -- Single-session exactness: while one session alone has loaded and
\* then only submitted answers, every read and upsert succeeding and no
\* reset (hist.pure), the remote attempts are the loaded attempts plus the
\* number k of submissions, the remote correct the loaded correct plus the
\* number of correct submissions, and Working, Baseline and Remote agree on
\* attempts and correct after the load and after every save (no save of the
\* session is under way).
C25_SingleSessionExact ==
    \A s \in Sessions :
        (/\ OnlySession(s) /\ Idle(s)
         /\ sb_session[s] /= None /\ progress_loaded[s]
         /\ hist.pure[sb_session[s][1]])
        => LET u == sb_session[s][1]
           IN /\ Rem(u).attempts = hist.start[u][1] + hist.subs[u]
              /\ Rem(u).correct = hist.start[u][2] + hist.cors[u]
              /\ Counters(progress[s][1]) = Counters(Rem(u))
              /\ Counters(progress_baseline[s][1]) = Counters(Rem(u))

\* C25 witness: one session loaded a row with attempts and has submitted
\* three answers, one of them correct; the remote counts all of them.
C25_Witness ==
    \E s \in Sessions :
        /\ OnlySession(s)
        /\ sb_session[s] /= None /\ progress_loaded[s]
        /\ hist.pure[sb_session[s][1]]
        /\ last.sess = s /\ last.op = "submit"
        /\ hist.start[sb_session[s][1]][1] >= 1
        /\ hist.subs[sb_session[s][1]] = 3
        /\ hist.cors[sb_session[s][1]] = 1
        /\ Rem(sb_session[s][1]).attempts = hist.start[sb_session[s][1]][1] + 3
        /\ progress[s][1].attempts = Rem(sb_session[s][1]).attempts

\* C26 -- wrong_ids tracks the most recent verdict: with one session and no
\* failure, after any sequence of submissions (the save of the last one
\* has completed), an id answered in the session is in the remote wrong_ids
\* exactly when its most recent submission was incorrect, and it is in the
\* remote seen_ids.
C26_WrongIsLatestVerdict ==
    \A s \in Sessions : \A q \in SoloIds :
        (sb_session[s] /= None /\ Idle(s) /\ hist.verdict[q] /= "none")
        => LET row == Rem(sb_session[s][1])
           IN /\ q \in row.wrong_ids <=> hist.verdict[q] = "wrong"
              /\ q \in row.seen_ids

\* C26 witness: after at least four attempts in all, the most recent answer
\* of the session to question 1 was correct and to question 2 wrong; the
\* remote row has seen both and lists 2 alone as wrong.
C26_Witness ==
    \E s \in Sessions :
        /\ sb_session[s] /= None
        /\ last.sess = s /\ last.op = "submit"
        /\ hist.verdict["1"] = "right" /\ hist.verdict["2"] = "wrong"
        /\ progress[s][1].attempts >= 4
        /\ progress[s][1].correct = 1
        /\ Rem(sb_session[s][1]).wrong_ids = {"2"}
        /\ Rem(sb_session[s][1]).seen_ids = {"1", "2"}

\* The upsert step of a save of session s with the same Working copy, the
\* save directly following a save of s that reached the merge.
MergedAgain(s) ==
    /\ inflight[s] /= None
    /\ inflight[s][1].prev.op \in SaveOps
    /\ inflight[s][1].prev.result = "ok"
    /\ SavedBy(s) /\ last'.op = "save"
    /\ last'.p = inflight[s][1].prev.p

\* C27 -- seen_ids union idempotence: for every R, B and W of the bounded
\* input set, the merge run again on identical inputs (the first upsert
\* failed: same row, same Baseline, same W) gives identical seen_ids, and
\* the merge run again with R replaced by the first merged result and the
\* same W (the first upsert succeeded) gives the same seen_ids again.
C27_SeenIdempotent ==
    [][\A s \in Sessions :
         MergedAgain(s)
         => LET first == inflight[s][1].prev
            IN /\ ~first.upsertOk =>
                     /\ last'.server = first.server
                     /\ last'.d_attempts = first.d_attempts
                     /\ last'.d_correct = first.d_correct
                     /\ last'.payload.seen_ids = first.payload.seen_ids
               /\ first.upsertOk =>
                     /\ last'.server = first.payload
                     /\ last'.payload.seen_ids = first.payload.seen_ids]_vars

\* C27 witness: the first save of a new user (Working has seen question 5,
\* the row was the default) has been repeated on the merged row; the row
\* fetched by the second save and the row it wrote both have seen 5 alone.
C27_Witness ==
    \E s \in Sessions :
        /\ hist.repeat = "afterOk"
        /\ last.sess = s /\ last.op = "save" /\ last.upsertOk
        /\ last.p = Scenario2.W
        /\ last.server.seen_ids = {"5"}
        /\ last.payload.seen_ids = {"5"}
        /\ Rem(sb_session[s][1]).seen_ids = {"5"}


(***************************************************************************)
(* One browser session used by two users in turn.                          *)
(***************************************************************************)
AllUsers == {"u1", "u2"}

Browser == CHOOSE s \in Sessions : TRUE

SwitchInit ==
    /\ remote \in [AllUsers -> {None} \union {Some(r) : r \in InitRows}]
    /\ sb_session = [s \in Sessions |-> None]
    /\ progress = [s \in Sessions |-> None]
    /\ progress_loaded = [s \in Sessions |-> FALSE]
    /\ progress_baseline = [s \in Sessions |-> None]
    /\ inflight = [s \in Sessions |-> None]
    /\ last = NoIO("init", Browser, "ok")
    /\ hist = [pure |-> [u \in AllUsers |-> FALSE],
               start |-> [u \in AllUsers |-> <<0, 0>>],
               subs |-> [u \in AllUsers |-> 0],
               cors |-> [u \in AllUsers |-> 0],
               overwritten |-> [u \in AllUsers |-> FALSE],
               snap0 |-> [s \in Sessions |-> None],
               saves |-> [s \in Sessions |-> 0],
               fresh |-> [s \in Sessions |-> FALSE],
               repeat |-> "no"]
    /\ nops = 0
    /\ nfaults = 0

SwitchNext ==
    \/ \E s \in {Browser}, u \in AllUsers : LogIn(s, u) /\ UNCHANGED <<nops, nfaults>>
    \/ \E s \in {Browser} : Budget(<<>>) /\ LogOut(s)
    \/ \E s \in {Browser}, fetchOk \in BOOLEAN :
          Budget(<<fetchOk>>) /\ PageLoad(s, fetchOk)
    \/ \E s \in {Browser}, fetchOk \in BOOLEAN :
          Budget(<<fetchOk>>) /\ Load(s, fetchOk)
    \/ \E s \in {Browser}, qid \in Ids, correct, fetchOk \in BOOLEAN :
          Budget(<<fetchOk>>) /\ Submit(s, qid, correct, fetchOk)
    \/ \E s \in {Browser}, fetchOk \in BOOLEAN :
          Budget(<<fetchOk>>) /\ Reset(s, fetchOk)
    \/ \E s \in {Browser}, ok \in BOOLEAN : Budget(<<ok>>) /\ Save(s, ok)
    \/ \E s \in {Browser}, fetchOk \in BOOLEAN :
          Continue(<<fetchOk>>) /\ SaveFetch(s, fetchOk)
    \/ \E s \in {Browser}, upsertOk \in BOOLEAN :
          Continue(<<upsertOk>>) /\ SaveUpsert(s, upsertOk)

SwitchSpec == SwitchInit /\ [][SwitchNext]_vars

\* The remote calls a handler made include an upsert.
Upserts(calls) == \E i \in DOMAIN calls : calls[i] = "upsert"

\* C28 -- frame of the remote table: a remote row changes only in a step
\* that is the upsert of a save, the upsert succeeding, made by a session
\* signed in as the row's user, and the row becomes that save's payload; a
\* load, the local mutation with the remote read of a submission, the
\* implicit load and the read of a save, a login and a logout leave every
\* row as it was; a save by user u leaves every other user's row as it was;
\* and after the save of a loaded session the Working copy is the snapshot
\* that was passed to save_progress.
C28_OnlyUpsertWritesOwnRow ==
    [][/\ \A u \in AllUsers :
             remote'[u] /= remote[u]
             => /\ last'.op \in SaveOps /\ Upserts(last'.calls) /\ last'.upsertOk
                /\ sb_session[last'.sess] = Some(u)
                /\ remote'[u] = Some(last'.payload)
                /\ \A v \in AllUsers \ {u} : remote'[v] = remote[v]
       /\ last'.op \in {"load", "fetch", "saveload", "login", "logout"}
          => remote' = remote
       /\ (last'.op \in SaveOps /\ last'.calls = <<"fetch", "upsert">>)
          => /\ progress'[last'.sess] = Some(last'.p)
             /\ last'.p = inflight[last'.sess][1].p]_vars

\* C28 witness: u2 has just submitted an answer from the browser and the
\* upsert wrote u2's row (attempts 2) while u1's row, a different one, is
\* in the table.
C28_Witness ==
    /\ sb_session[Browser] = Some("u2")
    /\ last.op = "submit" /\ last.upsertOk
    /\ remote["u2"] = Some(last.payload)
    /\ progress[Browser] = Some(last.p)
    /\ last.payload.attempts = 2
    /\ remote["u1"] /= None /\ Rem("u1").attempts = 1

\* C29 -- logout forces a reload before the next save: right after a logout
\* and right after the login that follows it the loaded flag is off and
\* there is no Baseline; a loaded flag or a Baseline is held only by a
\* signed-in session that has loaded under its present login; a save that
\* starts with its remote read is made by such a session, a save that
\* starts with the load does so for the present identity and keeps the
\* snapshot that load returned as the Baseline; and every upsert is made by
\* a session that has loaded under its present login, its delta taken
\* against the Baseline of that login.
C29_LogoutForcesReload ==
    [][\A s \in Sessions :
         /\ (last'.sess = s /\ last'.op \in {"logout", "login"})
            => ~progress_loaded'[s] /\ progress_baseline'[s] = None
         /\ (progress_loaded[s] \/ progress_baseline[s] /= None)
            => sb_session[s] /= None /\ hist.fresh[s]
         /\ (last'.sess = s /\ last'.op = "fetch" /\ inflight[s] = None)
            => /\ sb_session[s] /= None /\ hist.fresh[s]
               /\ progress_loaded[s] /\ progress_baseline[s] /= None
         /\ (last'.sess = s /\ last'.op = "saveload")
            => /\ sb_session[s] /= None /\ ~hist.fresh[s] /\ hist'.fresh[s]
               /\ ~progress_loaded[s] /\ progress_loaded'[s]
               /\ \E loadOk \in BOOLEAN :
                    progress_baseline'[s] =
                       Some(load_progress(sb_session[s][1], loadOk))
         /\ (last'.sess = s /\ last'.op \in SaveOps /\ Upserts(last'.calls))
            => /\ sb_session[s] /= None /\ hist.fresh[s] /\ hist'.fresh[s]
               /\ progress_loaded[s] /\ progress_baseline[s] /= None
               /\ last'.d_attempts =
                     max0(last'.p.attempts - progress_baseline[s][1].attempts)
               /\ last'.d_correct =
                     max0(last'.p.correct - progress_baseline[s][1].correct)]_vars

\* C29 witness: the browser wrote u1's row (attempts 2, more than any
\* initial row), u1 logged out, u2 logged in, and the save made next began
\* with the load for u2 and then upserted u2's row.
C29_Witness ==
    /\ Rem("u1").attempts = 2
    /\ sb_session[Browser] = Some("u2")
    /\ last.op = "save" /\ last.sess = Browser /\ last.upsertOk
    /\ last.calls = <<"fetch", "fetch", "upsert">>
    /\ remote["u2"] = Some(last.payload)
    /\ hist.fresh[Browser]


\* The step is the upsert of handler `op` run by session s, its remote read
\* and its upsert succeeding.
CleanStep(s, op) ==
    /\ last'.sess = s /\ last'.op = op /\ last'.result = "ok"
    /\ last'.fetchOk /\ last'.upsertOk

\* The save of "Reset progress & settings" upserts a row equal to the row it
\* fetched.
ResetWritesFetchedRow ==
    [][\A s \in Sessions :
         CleanStep(s, "reset")
         => /\ last'.p = reset_progress
            /\ last'.payload = last'.server
            /\ RemNext(sb_session[s][1]) = last'.server]_vars

\* C30 -- Reset does not change the remote, and the session keeps counting
\* afterwards: the save of the reset upserts the row it fetched, and an
\* answer submitted by the session right after its reset (no other session,
\* no failed call so far) raises the remote attempts by exactly 1.
C30_ResetKeepsCounting ==
    [][\A s \in Sessions :
         /\ CleanStep(s, "reset")
            => /\ last'.payload = last'.server
               /\ RemNext(sb_session[s][1]) = last'.server
         /\ (/\ OnlySession(s) /\ nfaults' = 0
             /\ inflight[s] /= None
             /\ inflight[s][1].prev.op = "reset"
             /\ inflight[s][1].prev.result = "ok"
             /\ inflight[s][1].prev.fetchOk /\ inflight[s][1].prev.upsertOk
             /\ CleanStep(s, "submit"))
            => RemNext(sb_session[s][1]).attempts
                  = Rem(sb_session[s][1]).attempts + 1]_vars

====
